---- MODULE Spec2Model ----
(***************************************************************************)
(* State-machine model of pyro/contrib/easyguide/easyguide.py:             *)
(* one EasyGuide instance (catalog, frame registry, group cache, plate     *)
(* cache), its invocation protocol __call__, and the operations a guide    *)
(* body performs on it (plate, group, Group.sample, map_estimate), with    *)
(* the plates on runtime._PYRO_STACK and the global parameter store.       *)
(*                                                                         *)
(* Python values are represented as follows.                               *)
(*   str used as a regex or matched by one : sequence of 1-char strings    *)
(*   dict                                  : function over its key set     *)
(*   torch.Size / shape tuple              : sequence of naturals          *)
(*   object identity                       : an integer id field           *)
(*   None in an integer slot               : the number None               *)
(*   torch.Tensor                          : its shape and a function from *)
(*                                           0-based index tuples to       *)
(*                                           elements                      *)
(***************************************************************************)
EXTENDS Integers, Sequences, FiniteSets, TLC

VARIABLES
    model,            \* self.model: the sites the model records when traced
    prototype_trace,  \* self.prototype_trace
    frames,           \* self.frames
    groups,           \* self.groups
    plates,           \* self.plates
    pc,               \* "idle", or "guide" while self.guide(...) is running
    calls,            \* number of invocations instance(*args) started so far
    setup_runs,       \* number of times _setup_prototype has been entered
    nextId,           \* identity of the next object to be constructed
    retired,          \* (name, id) of the plate objects cached when an invocation returned
    stack,            \* the plates on runtime._PYRO_STACK, outermost first
    param_store,      \* pyro.get_param_store()
    returned,         \* history: the site name and value of the latest
                      \*   map_estimate return since the last optimizer
                      \*   step, kept by the specifications that observe it
    ret               \* outcome of the most recent operation

vars == <<model, prototype_trace, frames, groups, plates, pc, calls,
          setup_runs, nextId, retired, stack, param_store, returned, ret>>

----------------------------------------------------------------------------
(* Bounds *)

\* invocations of the instance explored
MaxCalls == 2
\* plate and Group objects constructed over a run
MaxObjs == 4

----------------------------------------------------------------------------
(* Python helpers *)

\* Python None where an integer is expected (plate sizes are positive,
\* vectorized frame dims are negative, so 0 is free)
None == 0

EmptyDict == [k \in {} |-> 0]

\* d[k] = v
SetItem(d, k, v) == [x \in DOMAIN d \cup {k} |-> IF x = k THEN v ELSE d[x]]

\* the values of a dict or list
Range(s) == {s[i] : i \in DOMAIN s}

\* torch.Size(shape).numel()
RECURSIVE numel(_)
numel(shape) == IF shape = <<>> THEN 1 ELSE Head(shape) * numel(Tail(shape))

----------------------------------------------------------------------------
(* The models an EasyGuide may be constructed with *)

\* CondIndepStackFrame(name, dim, size); dim is None for a sequential plate
Frame(n, d, s) == [name |-> n, dim |-> d, size |-> s]

\* mutation: the sequential-plate test is lost
vectorized_any(frame) == TRUE

\* CondIndepStackFrame.vectorized
vectorized(frame) == frame.dim # None

\* a stochastic site of the trace: name, fn.batch_shape, fn.event_shape,
\* cond_indep_stack
Site(n, b, e, st) ==
    [name |-> n, batch_shape |-> b, event_shape |-> e, cond_indep_stack |-> st]

fP == Frame("p", -1, 3)
fQ == Frame("q", -2, 2)
fP2 == Frame("p", -1, 2)
fS == Frame("s", None, 2)

\* two sites outside any plate
ModelFlat ==
    << Site(<<"a">>, <<>>, <<>>, <<>>),
       Site(<<"b">>, <<>>, <<2>>, <<>>) >>
\* one site inside a vectorized plate, one outside
ModelPlate ==
    << Site(<<"a">>, <<3>>, <<>>, <<fP>>),
       Site(<<"b">>, <<>>, <<>>, <<>>) >>
\* nested vectorized plates
ModelNested ==
    << Site(<<"a">>, <<3>>, <<>>, <<fP>>),
       Site(<<"a", "b">>, <<2, 3>>, <<2>>, <<fQ, fP>>) >>
\* two plates of the same name and different size, used one after the other
ModelRenamed ==
    << Site(<<"a">>, <<3>>, <<>>, <<fP>>),
       Site(<<"b">>, <<2>>, <<>>, <<fP2>>) >>
\* a sequential plate nested in a vectorized one, on the second site
ModelSeqLate ==
    << Site(<<"b">>, <<3>>, <<>>, <<fP>>),
       Site(<<"a">>, <<3>>, <<>>, <<fP, fS>>) >>

Models == {ModelFlat, ModelPlate, ModelNested, ModelRenamed, ModelSeqLate}

\* a model without sample statements
ModelEmpty == << >>
\* a distribution that is not expanded to its plate: the site is in frame p
\* and fn.batch_shape is ()
ModelUnexpanded ==
    << Site(<<"a">>, <<>>, <<>>, <<fP>>),
       Site(<<"b">>, <<3>>, <<>>, <<fP>>) >>

\* the models of the group-request specification
ModelsDirect == Models \cup {ModelEmpty, ModelUnexpanded}

\* some recorded site carries a sequential frame
HasSequential(m) ==
    \E i \in DOMAIN m : \E j \in DOMAIN m[i].cond_indep_stack :
        m[i].cond_indep_stack[j].dim = None

----------------------------------------------------------------------------
(* EasyGuide.__init__ *)

\* the history of map_estimate returns is not kept
Unobserved == [on |-> FALSE, is_none |-> TRUE]
\* no map_estimate call has returned
NoReturn == [on |-> TRUE, is_none |-> TRUE]
\* the history after a return
Observe(h, name, value) ==
    IF h.on THEN [on |-> TRUE, is_none |-> FALSE, name |-> name, value |-> value]
    ELSE h

NoTrace == [is_none |-> TRUE, run |-> 0, nodes |-> <<>>]

InitWith(ms, history) ==
    /\ model \in ms
    /\ prototype_trace = NoTrace
    /\ frames = EmptyDict
    /\ groups = EmptyDict
    /\ plates = EmptyDict
    /\ pc = "idle"
    /\ calls = 0
    /\ setup_runs = 0
    /\ nextId = 1
    /\ retired = {}
    /\ stack = <<>>
    /\ param_store = EmptyDict
    /\ returned = history
    /\ ret = [op |-> "init", err |-> "none"]

Init == InitWith(Models, Unobserved)

InitDirect == InitWith(ModelsDirect, Unobserved)

InitObserved == InitWith(Models, NoReturn)

\* the models of the map_estimate specification
ModelsMap == Models \cup {ModelUnexpanded}

InitMap == InitWith(ModelsMap, Unobserved)

----------------------------------------------------------------------------
(* EasyGuide._setup_prototype *)

\* every frame of every stochastic site, in the order the two nested loops
\* visit them
RECURSIVE AllFrames(_)
AllFrames(nodes) ==
    IF nodes = <<>> THEN <<>>
    ELSE Head(nodes).cond_indep_stack \o AllFrames(Tail(nodes))

\* mutation: a name that is already registered keeps its frame
RECURSIVE ScanFrames_keepfirst(_, _)
ScanFrames_keepfirst(fs, reg) ==
    IF fs = <<>> THEN [frames |-> reg, raised |-> FALSE]
    ELSE IF ~vectorized(Head(fs)) THEN [frames |-> reg, raised |-> TRUE]
    ELSE ScanFrames_keepfirst(Tail(fs),
            IF Head(fs).name \in DOMAIN reg THEN reg
            ELSE SetItem(reg, Head(fs).name, Head(fs)))

\* the loop body over that order: raise at the first sequential frame,
\* otherwise self.frames[frame.name] = frame
RECURSIVE ScanFrames(_, _)
ScanFrames(fs, reg) ==
    IF fs = <<>> THEN [frames |-> reg, raised |-> FALSE]
    ELSE IF ~vectorized(Head(fs)) THEN [frames |-> reg, raised |-> TRUE]
    ELSE ScanFrames(Tail(fs), SetItem(reg, Head(fs).name, Head(fs)))

\* the trace is assigned first, then the frames are scanned
_setup_prototype ==
    LET trace == [is_none |-> FALSE, run |-> setup_runs + 1, nodes |-> model]
        scan  == ScanFrames(AllFrames(trace.nodes), frames)
    IN  [prototype_trace |-> trace, frames |-> scan.frames, raised |-> scan.raised]

----------------------------------------------------------------------------
(* EasyGuide.__call__ *)

\* mutation: the catalog is rebuilt on every invocation
NeedsSetup_always == TRUE

\* mutation: the lazy construction is lost
NeedsSetup_never == FALSE

\* if self.prototype_trace is None
NeedsSetup == prototype_trace.is_none

\* lines 84-86: set up on first use, then enter the guide body; an error
\* raised by _setup_prototype leaves __call__ before the guide body
__call__ ==
    /\ pc = "idle"
    /\ calls < MaxCalls
    /\ calls' = calls + 1
    /\ IF NeedsSetup
       THEN LET s == _setup_prototype IN
            /\ setup_runs' = setup_runs + 1
            /\ prototype_trace' = s.prototype_trace
            /\ frames' = s.frames
            /\ IF s.raised
               THEN /\ pc' = "idle"
                    /\ ret' = [op |-> "call", err |-> "NotImplementedError"]
               ELSE /\ pc' = "guide"
                    /\ ret' = [op |-> "call", err |-> "none"]
       ELSE /\ pc' = "guide"
            /\ ret' = [op |-> "call", err |-> "none"]
            /\ UNCHANGED <<setup_runs, prototype_trace, frames>>
    /\ UNCHANGED <<model, groups, plates, nextId, retired, stack, param_store,
                   returned>>

\* mutation: the trailing clear is lost
plates_keep == plates

\* self.plates.clear()
plates_clear == EmptyDict

\* lines 86-88: the guide body returned, which closes the `with` blocks it
\* had open; clear the plate cache and return
guide_return ==
    /\ pc = "guide"
    /\ pc' = "idle"
    /\ plates' = plates_clear
    /\ retired' = retired \cup {<<plates[n].name, plates[n].id>> : n \in DOMAIN plates}
    /\ stack' = <<>>
    /\ ret' = [op |-> "return", err |-> "none"]
    /\ UNCHANGED <<model, prototype_trace, frames, groups, calls, setup_runs, nextId,
                   param_store, returned>>

\* line 86: the guide body raised; the exception closes the `with` blocks
\* of the guide body and leaves __call__ at once
guide_raise ==
    /\ pc = "guide"
    /\ pc' = "idle"
    /\ stack' = <<>>
    /\ ret' = [op |-> "return", err |-> "raised"]
    /\ UNCHANGED <<model, prototype_trace, frames, groups, plates, calls,
                   setup_runs, nextId, retired, param_store, returned>>

----------------------------------------------------------------------------
(* EasyGuide.plate *)

\* subsample=None
NoSubsample == <<>>

\* the object pyro.plate(name, size, subsample_size, subsample) constructs.
\* A plate with subsample_size < size holds the indices of its subsample:
\* the subsample argument when one is passed, and otherwise `drawn`, the
\* random draw the constructor makes
pyro_plate(id, name, size, subsample_size, subsample, drawn) ==
    [id |-> id, name |-> name, size |-> size,
     subsample_size |-> subsample_size, subsample |-> subsample,
     indices |-> IF subsample # NoSubsample THEN subsample
                 ELSE IF size # None /\ subsample_size # None
                         /\ subsample_size < size
                 THEN drawn ELSE <<>>]

\* mutation: every request constructs and stores a new object
plate_rebuild(ps, nid, name, size, subsample_size, subsample, drawn) ==
    LET p == pyro_plate(nid, name, size, subsample_size, subsample, drawn)
    IN  [plates |-> SetItem(ps, name, p), nextId |-> nid + 1, result |-> p]

\* lines 96-98 as a function of the cache `ps` and the id counter `nid`
plate(ps, nid, name, size, subsample_size, subsample, drawn) ==
    IF name \notin DOMAIN ps
    THEN LET p == pyro_plate(nid, name, size, subsample_size, subsample, drawn)
         IN  [plates |-> SetItem(ps, name, p), nextId |-> nid + 1, result |-> p]
    ELSE [plates |-> ps, nextId |-> nid, result |-> ps[name]]

\* the subsamples a plate constructor may draw (two of the permutation
\* prefixes for each size explored)
Draws(size, subsample_size, subsample) ==
    IF subsample # NoSubsample THEN { <<>> }
    ELSE IF size = 3 /\ subsample_size = 2 THEN { <<0, 1>>, <<2, 0>> }
    ELSE IF size = 7 /\ subsample_size = 3 THEN { <<0, 1, 2>>, <<4, 6, 1>> }
    ELSE { <<>> }

PlateNames == {"p"}

\* (size, subsample_size, subsample) argument triples a guide body passes
PlateArgs == { <<3, None, NoSubsample>>, <<3, 2, <<0, 1>>>> }

\* the guide body evaluates self.plate(name, size, subsample_size, subsample)
guide_plate(name, args, drawn) ==
    /\ pc = "guide"
    /\ LET r == plate(plates, nextId, name, args[1], args[2], args[3], drawn) IN
       /\ r.nextId <= MaxObjs + 1
       /\ plates' = r.plates
       /\ nextId' = r.nextId
       /\ ret' = [op |-> "plate", err |-> "none", name |-> name,
                  args |-> args, drawn |-> drawn, result |-> r.result]
    /\ UNCHANGED <<model, prototype_trace, frames, groups, pc, calls,
                   setup_runs, retired, stack, param_store, returned>>

----------------------------------------------------------------------------
(* Plates on the effect stack *)

\* plate in runtime._PYRO_STACK (messengers compare by identity)
InStack(p, stk) == \E i \in DOMAIN stk : stk[i].id = p.id

\* the guide body enters `with self.plate(name, ...):` on the object the
\* plate request returned
guide_enter(name) ==
    /\ pc = "guide"
    /\ name \in DOMAIN plates
    /\ ~InStack(plates[name], stack)
    /\ stack' = Append(stack, plates[name])
    /\ ret' = [op |-> "enter", err |-> "none", name |-> name]
    /\ UNCHANGED <<model, prototype_trace, frames, groups, plates, pc, calls,
                   setup_runs, nextId, retired, param_store, returned>>

\* the guide body leaves its innermost `with self.plate(...):` block
guide_exit ==
    /\ pc = "guide"
    /\ stack # <<>>
    /\ stack' = SubSeq(stack, 1, Len(stack) - 1)
    /\ ret' = [op |-> "exit", err |-> "none"]
    /\ UNCHANGED <<model, prototype_trace, frames, groups, plates, pc, calls,
                   setup_runs, nextId, retired, param_store, returned>>

\* mutation: the request passes the frame's size along
plate_by_name_sized(ps, nid, frame) ==
    plate(ps, nid, frame.name, frame.size, None, NoSubsample, <<>>)

\* plate = self.plate(frame.name), lines 134 and 226
plate_by_name(ps, nid, frame) ==
    plate(ps, nid, frame.name, None, None, NoSubsample, <<>>)

\* mutation: every plate of the site is entered, active or not
ShouldEnter_always(p, stk) == TRUE

\* if plate not in runtime._PYRO_STACK
ShouldEnter(p, stk) == ~InStack(p, stk)

\* lines 225-228: request the plate of every frame of the site and enter,
\* through the ExitStack, those that are not on the stack
RECURSIVE EnterPlates(_, _, _, _)
EnterPlates(fs, ps, nid, stk) ==
    IF fs = <<>>
    THEN [plates |-> ps, nextId |-> nid, stack |-> stk, entered |-> <<>>]
    ELSE LET r    == plate_by_name(ps, nid, Head(fs))
             go   == ShouldEnter(r.result, stk)
             rest == EnterPlates(Tail(fs), r.plates, r.nextId,
                                 IF go THEN Append(stk, r.result) ELSE stk)
         IN  [rest EXCEPT !.entered = (IF go THEN <<r.result>> ELSE <<>>)
                                          \o rest.entered]

\* mutation: the contexts are not closed when the block is left
ExitStack__exit__leak(stk, entered) == stk

\* leaving `with ExitStack() as stack:` exits the contexts it entered, last
\* entered first; they are the innermost entries of the effect stack
ExitStack__exit__(stk, entered) == SubSeq(stk, 1, Len(stk) - Len(entered))

----------------------------------------------------------------------------
(* re.match(match, name) for patterns built from literal characters, ".",  *)
(* a postfix "*", a final "$" and top-level "|"                            *)

\* one pattern character against one name character; without re.DOTALL
\* "." matches every character except a newline
MatchAtom(c, ch) == IF c = "." THEN ch # "\n" ELSE c = ch

\* the branch `re` from position i matches `s` from position j; re.match
\* anchors at the start of the name only, so a matched prefix is enough;
\* "$" matches at the end of the name and just before a newline that ends it
RECURSIVE MatchHere(_, _, _, _)
MatchHere(re, i, s, j) ==
    IF i > Len(re) THEN TRUE
    ELSE IF re[i] = "$" /\ i = Len(re) THEN j > Len(s) \/ (j = Len(s) /\ s[j] = "\n")
    ELSE IF i < Len(re) /\ re[i + 1] = "*"
         THEN \E k \in 0..(Len(s) - j + 1) :
                 /\ \A m \in j..(j + k - 1) : MatchAtom(re[i], s[m])
                 /\ MatchHere(re, i + 2, s, j + k)
    ELSE /\ j <= Len(s)
         /\ MatchAtom(re[i], s[j])
         /\ MatchHere(re, i + 1, s, j + 1)

\* the branches of a pattern, separated by "|"
RECURSIVE Branches(_)
Branches(re) ==
    IF \E i \in DOMAIN re : re[i] = "|"
    THEN LET i == CHOOSE i \in DOMAIN re :
                     re[i] = "|" /\ \A k \in 1..(i - 1) : re[k] # "|"
         IN  {SubSeq(re, 1, i - 1)} \cup Branches(SubSeq(re, i + 1, Len(re)))
    ELSE {re}

re_match(match, name) == \E b \in Branches(match) : MatchHere(b, 1, name, 1)

----------------------------------------------------------------------------
(* Group.__init__ *)

\* frozenset(f for f in site["cond_indep_stack"] if f.vectorized)
VectorizedFrames(site) == {f \in Range(site.cond_indep_stack) : vectorized(f)}

\* mutation: the frames of the first member only
CommonFrames_first(sites) == VectorizedFrames(sites[1])

\* frozenset.intersection over the member sites
CommonFrames(sites) ==
    {f \in VectorizedFrames(sites[1]) :
        \A i \in DOMAIN sites : f \in VectorizedFrames(sites[i])}

\* for f in self.frames: site_batch_shape[f.dim] = 1; f.dim is a negative
\* index into the list, and an assignment past its start is an IndexError
CollapseFrames(batch_shape, fs) ==
    IF \E f \in fs : - f.dim > Len(batch_shape)
    THEN [err |-> "IndexError", shape |-> <<>>]
    ELSE [err |-> "none",
          shape |-> [i \in DOMAIN batch_shape |->
                        IF \E f \in fs : Len(batch_shape) + f.dim + 1 = i
                        THEN 1 ELSE batch_shape[i]]]

\* lines 172-178: event_shape[0], accumulated over the sites in order; the
\* loop ends at the first site whose batch shape cannot be indexed
RECURSIVE EventSize(_, _)
EventSize(sites, fs) ==
    IF sites = <<>> THEN [err |-> "none", size |-> 0]
    ELSE IF CollapseFrames(Head(sites).batch_shape, fs).err # "none"
    THEN [err |-> CollapseFrames(Head(sites).batch_shape, fs).err, size |-> 0]
    ELSE IF EventSize(Tail(sites), fs).err # "none"
    THEN EventSize(Tail(sites), fs)
    ELSE [err |-> "none",
          size |-> numel(Head(sites).event_shape)
                      * numel(CollapseFrames(Head(sites).batch_shape, fs).shape)
                   + EventSize(Tail(sites), fs).size]

\* Group(self, sites): the object `self` when the constructor returns, or
\* the exception it raises
Group__init__(id, sites) ==
    [err  |-> EventSize(sites, CommonFrames(sites)).err,
     self |-> [id |-> id, sites |-> sites, frames |-> CommonFrames(sites),
               event_shape |-> <<EventSize(sites, CommonFrames(sites)).size>>]]

\* lines 115-116: the constructed Group is cached and returned; when the
\* constructor raises, nothing is cached
group_construct(gs, nid, match, c) ==
    IF c.err # "none"
    THEN [groups |-> gs, nextId |-> nid, err |-> c.err, result |-> None]
    ELSE [groups |-> SetItem(gs, match, c.self), nextId |-> nid + 1,
          err |-> "none", result |-> c.self]

----------------------------------------------------------------------------
(* EasyGuide.group *)

\* the list comprehension of lines 109-111, in catalog order
RECURSIVE MatchingSites(_, _)
MatchingSites(nodes, match) ==
    IF nodes = <<>> THEN <<>>
    ELSE (IF re_match(match, Head(nodes).name) THEN <<Head(nodes)>> ELSE <<>>)
         \o MatchingSites(Tail(nodes), match)

\* mutation: the cache is not consulted, every request builds a Group
group_nocache(gs, nid, match) ==
    LET sites == MatchingSites(prototype_trace.nodes, match) IN
    IF prototype_trace.is_none
    THEN [groups |-> gs, nextId |-> nid, err |-> "AttributeError", result |-> None]
    ELSE IF sites = <<>>
    THEN [groups |-> gs, nextId |-> nid, err |-> "ValueError", result |-> None]
    ELSE group_construct(gs, nid, match, Group__init__(nid, sites))

\* mutation: the pattern is entered in the cache before the selection is
\* tested for emptiness
group_cache_first(gs, nid, match) ==
    IF match \notin DOMAIN gs
    THEN LET sites == MatchingSites(prototype_trace.nodes, match) IN
         IF prototype_trace.is_none
         THEN [groups |-> gs, nextId |-> nid, err |-> "AttributeError", result |-> None]
         ELSE IF sites = <<>>
         THEN [groups |-> SetItem(gs, match, None), nextId |-> nid,
               err |-> "ValueError", result |-> None]
         ELSE group_construct(gs, nid, match, Group__init__(nid, sites))
    ELSE [groups |-> gs, nextId |-> nid, err |-> "none", result |-> gs[match]]

\* lines 108-116 as a function of the cache `gs` and the id counter `nid`;
\* self.prototype_trace.iter_stochastic_nodes() on None is an AttributeError
group(gs, nid, match) ==
    IF match \notin DOMAIN gs
    THEN LET sites == MatchingSites(prototype_trace.nodes, match) IN
         IF prototype_trace.is_none
         THEN [groups |-> gs, nextId |-> nid, err |-> "AttributeError", result |-> None]
         ELSE IF sites = <<>>
         THEN [groups |-> gs, nextId |-> nid, err |-> "ValueError", result |-> None]
         ELSE group_construct(gs, nid, match, Group__init__(nid, sites))
    ELSE [groups |-> gs, nextId |-> nid, err |-> "none", result |-> gs[match]]

\* the pattern strings a guide body passes: ".*", "a$", "a|b", "c"
Patterns == { <<".", "*">>, <<"a", "$">>, <<"a", "|", "b">>, <<"c">> }

\* the guide body evaluates self.group(match)
guide_group(match) ==
    /\ pc = "guide"
    /\ LET r == group(groups, nextId, match) IN
       /\ r.nextId <= MaxObjs + 1
       /\ groups' = r.groups
       /\ nextId' = r.nextId
       /\ ret' = [op |-> "group", err |-> r.err, match |-> match,
                  result |-> r.result]
    /\ UNCHANGED <<model, prototype_trace, frames, plates, pc, calls,
                   setup_runs, retired, stack, param_store, returned>>

\* self.group(match) called on the instance outside any invocation
direct_group(match) ==
    /\ pc = "idle"
    /\ LET r == group(groups, nextId, match) IN
       /\ r.nextId <= MaxObjs + 1
       /\ groups' = r.groups
       /\ nextId' = r.nextId
       /\ ret' = [op |-> "group", err |-> r.err, match |-> match,
                  result |-> r.result]
    /\ UNCHANGED <<model, prototype_trace, frames, plates, pc, calls,
                   setup_runs, retired, stack, param_store, returned>>

----------------------------------------------------------------------------
(* Group.sample *)

\* mutation: the flag is only a default, a caller-supplied value wins
SampleInfer_setdefault(infer) ==
    LET d == IF infer.is_none THEN EmptyDict ELSE infer.dict
    IN  IF "is_auxiliary" \in DOMAIN d THEN d ELSE SetItem(d, "is_auxiliary", TRUE)

\* lines 198-200: the infer dict handed to pyro.sample
SampleInfer(infer) ==
    SetItem(IF infer.is_none THEN EmptyDict ELSE infer.dict, "is_auxiliary", TRUE)

\* lines 206-214: the span and the reshaped value of every member site, for
\* a packed sample whose leading shape is batch_shape; pos is the cursor
RECURSIVE Unpack(_, _, _)
Unpack(sites, batch_shape, pos) ==
    IF sites = <<>> THEN [pos |-> pos, spans |-> <<>>, shapes |-> <<>>]
    ELSE LET size == numel(Head(sites).event_shape)
             rest == Unpack(Tail(sites), batch_shape, pos + size)
         IN  [pos    |-> rest.pos,
              spans  |-> <<<<pos, pos + size>>>> \o rest.spans,
              shapes |-> <<batch_shape \o Head(sites).event_shape>> \o rest.shapes]

\* lines 224-229: one ExitStack block per member site, in order; `entered`
\* lists, per site, the plates the block entered, and `inside`, per site,
\* the stack under which the site's sample statement ran
RECURSIVE ReplaySites(_, _, _, _)
ReplaySites(sites, ps, nid, stk) ==
    IF sites = <<>>
    THEN [plates |-> ps, nextId |-> nid, stack |-> stk,
          entered |-> <<>>, inside |-> <<>>]
    ELSE LET e    == EnterPlates(Head(sites).cond_indep_stack, ps, nid, stk)
             rest == ReplaySites(Tail(sites), e.plates, e.nextId,
                                 ExitStack__exit__(e.stack, e.entered))
         IN  [rest EXCEPT !.entered = <<e.entered>> \o rest.entered,
                          !.inside  = <<e.stack>> \o rest.inside]

\* the guide body evaluates self.group(match).sample(guide_name, fn, infer)
\* on a cached group; fn draws a packed sample of shape
\* batch_shape + group.event_shape
Group_sample(match, batch_shape, infer) ==
    /\ pc = "guide"
    /\ match \in DOMAIN groups
    /\ LET g       == groups[match]
           guide_z == batch_shape \o g.event_shape
           u       == Unpack(g.sites, SubSeq(guide_z, 1, Len(guide_z) - 1), 0)
           r       == ReplaySites(g.sites, plates, nextId, stack)
       IN  /\ r.nextId <= MaxObjs + 1
           /\ plates' = r.plates
           /\ nextId' = r.nextId
           /\ stack' = r.stack
           /\ ret' = [op |-> "sample", err |-> "none", match |-> match,
                      guide_z |-> guide_z, infer_in |-> infer,
                      infer |-> SampleInfer(infer),
                      pos |-> u.pos, spans |-> u.spans, shapes |-> u.shapes,
                      sites |-> g.sites, entered |-> r.entered, inside |-> r.inside]
    /\ UNCHANGED <<model, prototype_trace, frames, groups, pc, calls,
                   setup_runs, retired, param_store, returned>>

\* leading shapes of the packed sample
BatchShapes == { <<>>, <<2>>, <<3>> }

\* infer arguments: None, or a dict
InferArgs ==
    { [is_none |-> TRUE, dict |-> EmptyDict],
      [is_none |-> FALSE, dict |-> [k \in {"is_auxiliary"} |-> FALSE]],
      [is_none |-> FALSE, dict |-> [k \in {"enumerate"} |-> "parallel"]],
      [is_none |-> FALSE,
       dict |-> [k \in {"is_auxiliary", "enumerate"} |->
                    IF k = "is_auxiliary" THEN FALSE ELSE "parallel"]] }

----------------------------------------------------------------------------
(* Tensors *)

\* the index tuples of a tensor of the given shape
RECURSIVE Indices(_)
Indices(shape) ==
    IF shape = <<>> THEN {<<>>}
    ELSE {<<i>> \o rest : i \in 0..(Head(shape) - 1), rest \in Indices(Tail(shape))}

\* row-major position of an index tuple
RECURSIVE Linear(_, _)
Linear(shape, idx) ==
    IF shape = <<>> THEN 0
    ELSE Head(idx) * numel(Tail(shape)) + Linear(Tail(shape), Tail(idx))

\* site["value"]: a tensor of shape batch_shape + event_shape; its elements
\* are numbered so that every element is distinct
site_value(site) ==
    LET shape == site.batch_shape \o site.event_shape
    IN  [shape |-> shape, at |-> [idx \in Indices(shape) |-> Linear(shape, idx)]]

\* the 1-based axis a (negative) dim denotes in a tensor with ndim axes
Axis(ndim, dim) == ndim + dim + 1

\* mutation: past the subsample the last element is repeated
RepeatIndex_clamp(size, subsample_size) ==
    [i \in 1..size |-> IF i - 1 < subsample_size THEN i - 1 ELSE subsample_size - 1]

\* lines 141-142: torch.arange(plate.size) % plate.subsample_size
RepeatIndex(size, subsample_size) == [i \in 1..size |-> (i - 1) % subsample_size]

\* tensor.index_select(dim, ind)
index_select(t, axis, ind) ==
    LET shape == [t.shape EXCEPT ![axis] = Len(ind)]
    IN  [shape |-> shape,
         at |-> [idx \in Indices(shape) |->
                    t.at[[idx EXCEPT ![axis] = ind[idx[axis] + 1]]]]]

----------------------------------------------------------------------------
(* EasyGuide.map_estimate *)

\* plate.size: pyro.plate stores -1 when it is constructed without a size
plate_size(p) == IF p.size = None THEN -1 ELSE p.size

\* plate.subsample_size: -1 without a size; without a subsample_size the
\* length of the subsample passed, or else the size
plate_subsample_size(p) ==
    IF p.size = None THEN -1
    ELSE IF p.subsample_size # None THEN p.subsample_size
    ELSE IF p.subsample # NoSubsample THEN Len(p.subsample)
    ELSE p.size

\* plate.dim of an active plate: dims are allocated from -1 downwards in
\* the order the plates are entered
plate_dim(p, stk) == - (CHOOSE i \in DOMAIN stk : stk[i].id = p.id)

NoValue == [is_none |-> TRUE]

\* "auto_{}".format(name)
ParamName(name) == <<"auto_">> \o name

\* mutation: the catalog value is passed as the seed on every call
ParamAbsent_always(store, name) == TRUE

\* param_name not in pyro.get_param_store()
ParamAbsent(store, name) == ParamName(name) \notin DOMAIN store

\* lines 133-143: the frames of the site in order; a plate that is not
\* active is entered, an active subsampled one re-indexes the seed.
\* init_value.size(dim) is an IndexError for a dim the seed does not have
RECURSIVE MapFrames(_, _, _, _, _, _)
MapFrames(fs, ps, nid, stk, init_value, event_dim) ==
    IF fs = <<>>
    THEN [plates |-> ps, nextId |-> nid, stack |-> stk, entered |-> <<>>,
          init_value |-> init_value, err |-> "none", expanded |-> <<>>]
    ELSE LET r == plate_by_name(ps, nid, Head(fs))
             p == r.result
         IN  IF ShouldEnter(p, stk)
             THEN LET rest == MapFrames(Tail(fs), r.plates, r.nextId,
                                        Append(stk, p), init_value, event_dim)
                  IN  [rest EXCEPT !.entered = <<p>> \o rest.entered]
             ELSE IF ~init_value.is_none /\ plate_subsample_size(p) < plate_size(p)
             THEN LET dim  == plate_dim(p, stk) - event_dim
                      axis == Axis(Len(init_value.value.shape), dim)
                  IN  IF axis < 1
                      THEN [plates |-> r.plates, nextId |-> r.nextId, stack |-> stk,
                            entered |-> <<>>, init_value |-> init_value,
                            err |-> "IndexError", expanded |-> <<>>]
                      ELSE IF init_value.value.shape[axis] # plate_subsample_size(p)
                      THEN [plates |-> r.plates, nextId |-> r.nextId, stack |-> stk,
                            entered |-> <<>>, init_value |-> init_value,
                            err |-> "AssertionError", expanded |-> <<>>]
                      ELSE LET v == index_select(init_value.value, axis,
                                        RepeatIndex(plate_size(p), plate_subsample_size(p)))
                               rest == MapFrames(Tail(fs), r.plates, r.nextId, stk,
                                          [is_none |-> FALSE, value |-> v], event_dim)
                           IN  [rest EXCEPT !.expanded =
                                   <<[axis |-> axis, plate |-> p]>> \o rest.expanded]
             ELSE MapFrames(Tail(fs), r.plates, r.nextId, stk, init_value, event_dim)

\* a plate that is subsampled: subsample_size < size
Subsampled(p) == plate_subsample_size(p) < plate_size(p)

\* what the active plates do to the value of a param statement declared
\* with event_dim: each subsampled plate, at its dim counted left of the
\* event dims, selects its subsample along that axis of a value that has
\* the axis with a length other than 1; the length must be the plate's size
RECURSIVE SubsampleParam(_, _, _, _)
SubsampleParam(value, event_dim, stk, i) ==
    IF i > Len(stk) THEN [err |-> "none", value |-> value]
    ELSE IF ~Subsampled(stk[i])
            \/ Len(value.shape) < i + event_dim
            \/ value.shape[Axis(Len(value.shape), - i - event_dim)] = 1
    THEN SubsampleParam(value, event_dim, stk, i + 1)
    ELSE IF value.shape[Axis(Len(value.shape), - i - event_dim)] # stk[i].size
    THEN [err |-> "ValueError", value |-> value]
    ELSE SubsampleParam(
            index_select(value, Axis(Len(value.shape), - i - event_dim),
                         stk[i].indices),
            event_dim, stk, i + 1)

\* the store after pyro.param(name, init_value, ...): an existing parameter
\* is kept and a new one takes the seed
ParamStored(store, name, init_value) ==
    IF name \in DOMAIN store THEN store ELSE SetItem(store, name, init_value.value)

\* pyro.param(name, init_value, constraint=fn.support, event_dim=...) inside
\* the plates stk: the parameter is looked up or created, then handed back
\* as the active plates subsample it. The constraint is the support of the
\* distribution the seed was drawn from, so the constrained value read
\* back is the stored one
pyro_param(store, name, init_value, event_dim, stk) ==
    [store |-> ParamStored(store, name, init_value),
     err   |-> SubsampleParam(ParamStored(store, name, init_value)[name],
                              event_dim, stk, 1).err,
     value |-> SubsampleParam(ParamStored(store, name, init_value)[name],
                              event_dim, stk, 1).value]

\* lines 132-146 once the frames of the site are processed (m) and the
\* param statement has run (pr): the site is sampled at the value handed
\* back, after which the ExitStack block closes what it entered
map_estimate_result(site, seed, m, pr) ==
    [plates |-> m.plates, nextId |-> m.nextId,
     stack |-> ExitStack__exit__(m.stack, m.entered),
     param_store |-> pr.store, err |-> pr.err, site |-> site,
     entered |-> m.entered, inside |-> m.stack,
     seed |-> seed, init_value |-> m.init_value, expanded |-> m.expanded,
     value |-> pr.value]

\* lines 144-145: reached unless an assert of the loop failed
map_estimate_param(site, seed, m, store) ==
    map_estimate_result(site, seed, m,
        IF m.err # "none"
        THEN [store |-> store, err |-> m.err, value |-> None]
        ELSE pyro_param(store, ParamName(site.name), m.init_value,
                        Len(site.event_shape), m.stack))

\* lines 129-131: the catalog value of the site when the parameter is absent
map_estimate_seed(site, store) ==
    IF ParamAbsent(store, site.name)
    THEN [is_none |-> FALSE, value |-> site_value(site)]
    ELSE NoValue

\* lines 126-146 for a catalog site, as a function of the plate cache, the
\* id counter, the effect stack and the parameter store; `stack` is the
\* stack after the ExitStack block, `inside` the one the sample statement
\* ran under
map_estimate_site(site, ps, nid, stk, store) ==
    map_estimate_param(site, map_estimate_seed(site, store),
        MapFrames(site.cond_indep_stack, ps, nid, stk,
                  map_estimate_seed(site, store), Len(site.event_shape)),
        store)

\* self.prototype_trace.nodes[name]
SiteNamed(name) == CHOOSE x \in Range(prototype_trace.nodes) : x.name = name

EasyGuide_map_estimate(name, ps, nid, stk, store) ==
    map_estimate_site(SiteNamed(name), ps, nid, stk, store)

\* what the guide body sees of one map_estimate call
map_estimate_ret(name, m) ==
    IF m.err # "none"
    THEN [op |-> "map_estimate", err |-> m.err, name |-> name,
          sites |-> <<m.site>>, entered |-> <<m.entered>>,
          inside |-> <<m.inside>>]
    ELSE [op |-> "map_estimate", err |-> "none", name |-> name,
          sites |-> <<m.site>>, entered |-> <<m.entered>>,
          inside |-> <<m.inside>>,
          seed |-> m.seed, init_value |-> m.init_value,
          expanded |-> m.expanded, value |-> m.value]

\* the state one map_estimate or Group.map_estimate call leaves behind
MapEffect(r) ==
    /\ r.nextId <= MaxObjs + 1
    /\ plates' = r.plates
    /\ nextId' = r.nextId
    /\ stack' = r.stack
    /\ param_store' = r.param_store

\* the names of the catalog's sites
SiteNames == {prototype_trace.nodes[i].name : i \in DOMAIN prototype_trace.nodes}

\* the guide body evaluates self.map_estimate(name) for a catalog site
map_estimate(name) ==
    /\ pc = "guide"
    /\ name \in SiteNames
    /\ MapEffect(EasyGuide_map_estimate(name, plates, nextId, stack, param_store))
    /\ ret' = map_estimate_ret(name,
                 EasyGuide_map_estimate(name, plates, nextId, stack, param_store))
    /\ returned' = IF ret'.err = "none"
                   THEN Observe(returned, name, ret'.value)
                   ELSE returned
    /\ UNCHANGED <<model, prototype_trace, frames, groups, pc, calls,
                   setup_runs, retired>>

\* the comprehension stopped at the site whose call r raised
MapSitesRaise(r) ==
    [plates |-> r.plates, nextId |-> r.nextId, stack |-> r.stack,
     param_store |-> r.param_store, err |-> r.err,
     sites |-> <<r.site>>, entered |-> <<r.entered>>,
     inside |-> <<r.inside>>, items |-> <<>>]

\* the comprehension added the item of the call r and went on to `rest`
MapSitesItem(r, rest) ==
    [rest EXCEPT !.sites   = <<r.site>> \o @,
                 !.entered = <<r.entered>> \o @,
                 !.inside  = <<r.inside>> \o @,
                 !.items   = <<[name |-> r.site.name, value |-> r.value]>> \o @]

\* lines 240-241: the dict comprehension calls self.guide.map_estimate for
\* the member sites in order and stops at the first exception; `sites`
\* lists the sites it reached and `items` the (name, value) pairs it built
RECURSIVE MapSites(_, _, _, _, _)
MapSitesNext(sites, r) ==
    IF r.err # "none" THEN MapSitesRaise(r)
    ELSE MapSitesItem(r, MapSites(Tail(sites), r.plates, r.nextId, r.stack,
                                  r.param_store))

MapSites(sites, ps, nid, stk, store) ==
    IF sites = <<>>
    THEN [plates |-> ps, nextId |-> nid, stack |-> stk, param_store |-> store,
          err |-> "none", sites |-> <<>>, entered |-> <<>>, inside |-> <<>>,
          items |-> <<>>]
    ELSE MapSitesNext(sites,
            EasyGuide_map_estimate(Head(sites).name, ps, nid, stk, store))

\* what the guide body sees of one Group.map_estimate call on group g
Group_map_estimate_ret(match, g, r) ==
    [op |-> "Group.map_estimate", err |-> r.err,
     match |-> match, members |-> g.sites,
     sites |-> r.sites, entered |-> r.entered,
     inside |-> r.inside, items |-> r.items,
     result |-> IF r.err # "none" THEN None
                ELSE [n \in {r.items[i].name : i \in DOMAIN r.items}
                        |-> (CHOOSE x \in Range(r.items) : x.name = n).value]]

\* the guide body evaluates self.group(match).map_estimate() on a cached
\* group: one call estimates every member site and returns the dict from
\* site name to value
Group_map_estimate(match) ==
    /\ pc = "guide"
    /\ match \in DOMAIN groups
    /\ MapEffect(MapSites(groups[match].sites, plates, nextId, stack, param_store))
    /\ ret' = Group_map_estimate_ret(match, groups[match],
                 MapSites(groups[match].sites, plates, nextId, stack, param_store))
    /\ returned' = IF ret'.items = <<>> THEN returned
                   ELSE Observe(returned, ret'.items[Len(ret'.items)].name,
                                          ret'.items[Len(ret'.items)].value)
    /\ UNCHANGED <<model, prototype_trace, frames, groups, pc, calls,
                   setup_runs, retired>>

\* between invocations the inference driver's optimizer updates the
\* parameters of the store (one step here: every element moves by 100)
optim_step ==
    /\ pc = "idle"
    /\ param_store # EmptyDict
    /\ \A k \in DOMAIN param_store :
          \A idx \in DOMAIN param_store[k].at : param_store[k].at[idx] < 100
    /\ param_store' = [k \in DOMAIN param_store |->
                          [param_store[k] EXCEPT !.at =
                              [idx \in DOMAIN @ |-> @[idx] + 100]]]
    /\ returned' = IF returned.on THEN NoReturn ELSE returned
    /\ ret' = [op |-> "optim", err |-> "none"]
    /\ UNCHANGED <<model, prototype_trace, frames, groups, plates, pc, calls,
                   setup_runs, nextId, retired, stack>>

\* (size, subsample_size, subsample) of the subsampling plates a guide body
\* opens around map_estimate
MapPlateArgs ==
    { <<3, None, NoSubsample>>, <<3, 2, <<0, 1>>>>, <<7, 3, NoSubsample>> }

----------------------------------------------------------------------------
Next ==
    \/ __call__
    \/ guide_return
    \/ guide_raise
    \/ \E n \in PlateNames, a \in PlateArgs :
          \E d \in Draws(a[1], a[2], a[3]) : guide_plate(n, a, d)
    \/ \E m \in Patterns : guide_group(m)
    \/ \E m \in Patterns : Group_sample(m, <<3>>, [is_none |-> TRUE, dict |-> EmptyDict])

Spec == Init /\ [][Next]_vars

\* guide bodies that only select groups and sample them, over every packed
\* batch shape and infer argument
NextSample ==
    \/ __call__
    \/ guide_return
    \/ \E m \in Patterns : guide_group(m)
    \/ \E m \in Patterns, b \in BatchShapes, i \in InferArgs : Group_sample(m, b, i)

SpecSample == Init /\ [][NextSample]_vars

\* guide bodies that open plates and use map_estimate and Group.sample
\* inside and outside them, with optimizer steps between invocations
NextMap ==
    \/ __call__
    \/ guide_return
    \/ guide_raise
    \/ \E n \in PlateNames, a \in MapPlateArgs :
          \E d \in Draws(a[1], a[2], a[3]) : guide_plate(n, a, d)
    \/ \E n \in PlateNames : guide_enter(n)
    \/ guide_exit
    \/ guide_group(<<".", "*">>)
    \/ Group_sample(<<".", "*">>, <<3>>, [is_none |-> TRUE, dict |-> EmptyDict])
    \/ \E n \in SiteNames : map_estimate(n)
    \/ Group_map_estimate(<<".", "*">>)
    \/ optim_step

SpecMap == InitMap /\ [][NextMap]_vars

\* guide bodies that estimate sites, one by one and by group, inside and
\* outside subsampled plates, with optimizer steps between invocations; the
\* history of returned values is observed
NextParam ==
    \/ __call__
    \/ guide_return
    \/ \E n \in PlateNames, a \in MapPlateArgs :
          \E d \in Draws(a[1], a[2], a[3]) : guide_plate(n, a, d)
    \/ \E n \in PlateNames : guide_enter(n)
    \/ guide_exit
    \/ guide_group(<<".", "*">>)
    \/ \E n \in SiteNames : map_estimate(n)
    \/ Group_map_estimate(<<".", "*">>)
    \/ optim_step

SpecParam == InitObserved /\ [][NextParam]_vars

\* group requests made on the instance inside and outside invocations
NextDirect ==
    \/ __call__
    \/ guide_return
    \/ \E m \in Patterns : guide_group(m)
    \/ \E m \in Patterns : direct_group(m)

SpecDirect == InitDirect /\ [][NextDirect]_vars

----------------------------------------------------------------------------
(* Claims *)

\* C1: for a model with only vectorized plates, _setup_prototype runs in the
\* first invocation and in no later one, and the prototype trace built then
\* is never replaced or modified
C1_SetupOnce ==
    /\ [](~HasSequential(model) =>
            /\ calls = 0 => setup_runs = 0 /\ prototype_trace.is_none
            /\ calls >= 1 => setup_runs = 1 /\ ~prototype_trace.is_none)
    /\ [][~HasSequential(model) /\ ~prototype_trace.is_none
            => prototype_trace' = prototype_trace]_vars

C1_Witness ==
    ~HasSequential(model) /\ calls = 2 /\ pc = "guide" /\ setup_runs = 1

\* C2: when a recorded site has a sequential frame, the first invocation
\* fails with NotImplementedError and the guide body is not entered
C2_FirstCallFails ==
    HasSequential(model) /\ calls = 1 =>
        /\ ret = [op |-> "call", err |-> "NotImplementedError"]
        /\ pc = "idle"

C2_Witness ==
    HasSequential(model) /\ calls = 1 /\ ret.err = "NotImplementedError"

\* C3: after the unsupported-structure failure the instance has no catalog,
\* and the guide body never runs against a catalog with a sequential frame
C3_FailureLeavesUninitialized ==
    /\ ret.err = "NotImplementedError" => prototype_trace.is_none
    /\ HasSequential(model) => pc # "guide"

\* C4: plate(name, ...) is a memoization: a request for a name not in the
\* cache constructs an object from the arguments and caches it, a request for
\* a cached name returns the cached object and changes nothing, whatever the
\* arguments of the later request
C4_PlateMemo ==
    [][ret'.op = "plate" =>
        IF ret'.name \in DOMAIN plates
        THEN /\ ret'.result = plates[ret'.name]
             /\ plates' = plates
             /\ nextId' = nextId
        ELSE /\ ret'.result = pyro_plate(nextId, ret'.name, ret'.args[1],
                                         ret'.args[2], ret'.args[3], ret'.drawn)
             /\ plates' = SetItem(plates, ret'.name, ret'.result)]_vars

\* a cache hit whose arguments differ from the cached object's parameters
C4_Witness ==
    /\ ret.op = "plate"
    /\ ret.result.subsample_size # ret.args[2]
    /\ plates[ret.name] = ret.result

\* C5 as stated: a cached plate object is never discarded, the end of an
\* invocation included, so a later invocation gets the same object back
C5_PlatesPersist ==
    [][\A n \in DOMAIN plates : n \in DOMAIN plates' /\ plates'[n] = plates[n]]_vars

\* C5 amended: an invocation that returns leaves the plate cache empty, and
\* no plate object that was cached when an invocation returned is cached or
\* returned by plate(name, ...) afterwards
C5_PlatesDroppedOnReturn ==
    /\ ret = [op |-> "return", err |-> "none"] => plates = EmptyDict
    /\ \A n \in DOMAIN plates : <<plates[n].name, plates[n].id>> \notin retired
    /\ ret.op = "plate" => <<ret.result.name, ret.result.id>> \notin retired

\* a request in a later invocation for a name that an earlier invocation
\* had cached, answered with another object
C5_Witness ==
    /\ ret.op = "plate"
    /\ \E r \in retired : r[1] = ret.name /\ r[2] # ret.result.id

\* C6: group(p) is identity-stable per pattern string: a cached Group is
\* never replaced or dropped, a request for a cached pattern returns the
\* cached object, and distinct pattern strings hold distinct Group objects
C6_GroupIdentity ==
    /\ [](\A p \in DOMAIN groups, q \in DOMAIN groups :
            p # q => groups[p].id # groups[q].id)
    /\ [][/\ \A p \in DOMAIN groups :
                p \in DOMAIN groups' /\ groups'[p] = groups[p]
          /\ ret'.op = "group" /\ ret'.match \in DOMAIN groups
                => ret'.result = groups[ret'.match]
          /\ ret'.op = "group" /\ ret'.err = "none"
                => ret'.result = groups'[ret'.match]]_vars

\* two pattern strings with the same site set are cached as two objects, and
\* the last request was answered from the cache in a later invocation
C6_Witness ==
    /\ \E p \in DOMAIN groups, q \in DOMAIN groups :
          p # q /\ groups[p].sites = groups[q].sites /\ groups[p].id # groups[q].id
    /\ ret.op = "group" /\ ret.err = "none"
    /\ ret.result.id + 1 < nextId
    /\ calls = 2

\* C7: a pattern that matches no catalog site makes group raise ValueError,
\* constructs nothing and leaves the group cache as it was
C7_EmptySelection ==
    [][(/\ ret'.op = "group"
        /\ ~prototype_trace.is_none
        /\ MatchingSites(prototype_trace.nodes, ret'.match) = <<>>)
        => /\ ret'.err = "ValueError"
           /\ groups' = groups
           /\ nextId' = nextId]_vars

C7_Witness ==
    /\ ret.op = "group" /\ ret.err = "ValueError"
    /\ ret.match \notin DOMAIN groups
    /\ groups # EmptyDict

\* C8: the spans Group.sample slices add up to group.event_shape[0]
C8_SpansFillGroup ==
    ret.op = "sample" => ret.pos = groups[ret.match].event_shape[1]

\* C9: every member site's unpacked value has the site's recorded
\* batch_shape + event_shape
C9_UnpackedShape ==
    ret.op = "sample" =>
        \A i \in DOMAIN groups[ret.match].sites :
            ret.shapes[i] = groups[ret.match].sites[i].batch_shape
                                \o groups[ret.match].sites[i].event_shape

\* C10: the infer dict passed to the packed sample statement has
\* is_auxiliary = True and every other caller-supplied key with its value
C10_AuxiliaryForced ==
    ret.op = "sample" =>
        /\ "is_auxiliary" \in DOMAIN ret.infer
        /\ ret.infer["is_auxiliary"] = TRUE
        /\ \A k \in DOMAIN ret.infer_in.dict \ {"is_auxiliary"} :
              k \in DOMAIN ret.infer /\ ret.infer[k] = ret.infer_in.dict[k]

\* the caller passed is_auxiliary = False together with another key
C10_Witness ==
    /\ ret.op = "sample"
    /\ ~ret.infer_in.is_none
    /\ DOMAIN ret.infer_in.dict = {"is_auxiliary", "enumerate"}
    /\ ret.infer_in.dict["is_auxiliary"] = FALSE

\* C11: when map_estimate seeds a new parameter and a plate of the site is
\* active with subsample_size s < size n, the seed (of length s along the
\* plate's axis) is expanded to length n along that axis, element i being
\* the original element i mod s, all other axes unchanged; the expanded
\* value is what the parameter is created with
C11_RepeatToFullSize ==
    ret.op = "map_estimate" /\ ret.err = "none" /\ ~ret.seed.is_none =>
        LET site   == ret.sites[1]
            active == {j \in DOMAIN site.cond_indep_stack :
                          LET q == plates[site.cond_indep_stack[j].name]
                          IN  InStack(q, stack)
                                /\ plate_subsample_size(q) < plate_size(q)}
        IN  /\ active # {} => Len(ret.expanded) = 1
            /\ active = {} => ret.expanded = <<>> /\ ret.init_value = ret.seed
            /\ \A e \in DOMAIN ret.expanded :
                  LET k     == ret.expanded[e].axis
                      n     == plate_size(ret.expanded[e].plate)
                      sz    == plate_subsample_size(ret.expanded[e].plate)
                      orig  == ret.seed.value
                      final == ret.init_value.value
                  IN  /\ sz < n
                      /\ orig.shape[k] = sz
                      /\ final.shape = [orig.shape EXCEPT ![k] = n]
                      /\ DOMAIN final.at = Indices(final.shape)
                      /\ \A idx \in Indices(final.shape) :
                            final.at[idx] = orig.at[[idx EXCEPT ![k] = idx[k] % sz]]
                      /\ param_store[ParamName(ret.name)] = final

\* s = 3, n = 7: [0, 1, 2] has become [0, 1, 2, 0, 1, 2, 0]
C11_Witness ==
    /\ ret.op = "map_estimate" /\ ret.err = "none"
    /\ ~ret.seed.is_none
    /\ ret.seed.value.shape = <<3>>
    /\ ret.init_value.value.shape = <<7>>
    /\ [i \in 1..7 |-> ret.init_value.value.at[<<i - 1>>]] = <<0, 1, 2, 0, 1, 2, 0>>

SelectedAxes(stored, e, stk) ==
    [i \in {i \in DOMAIN stk :
              /\ stk[i].indices # <<>>
              /\ Len(stk[i].indices) < stk[i].size
              /\ Len(stored.shape) >= i + e
              /\ stored.shape[Len(stored.shape) - i - e + 1] # 1}
       |-> Len(stored.shape) - i - e + 1]

\* `value` is `stored` restricted to the subsamples of the plates of stk
IsSubsampleOf(value, stored, e, stk) ==
    LET ax == SelectedAxes(stored, e, stk) IN
    /\ value.shape = [a \in DOMAIN stored.shape |->
                        IF \E i \in DOMAIN ax : ax[i] = a
                        THEN Len(stk[CHOOSE i \in DOMAIN ax : ax[i] = a].indices)
                        ELSE stored.shape[a]]
    /\ DOMAIN value.at = Indices(value.shape)
    /\ \A idx \in Indices(value.shape) :
          value.at[idx] =
             stored.at[[a \in DOMAIN idx |->
                          IF \E i \in DOMAIN ax : ax[i] = a
                          THEN stk[CHOOSE i \in DOMAIN ax : ax[i] = a].indices[idx[a] + 1]
                          ELSE idx[a]]]

C13_PlatesEmptyWhenIdle ==
    pc = "idle" => plates = EmptyDict

\* C14 as stated: a group request made while there is no catalog builds the
\* catalog, and group(".*") returns a Group containing every catalog site
C14_GroupBuildsCatalog ==
    [][ret'.op = "group" =>
        /\ ~prototype_trace'.is_none
        /\ ret'.match = <<".", "*">> =>
              /\ ret'.err = "none"
              /\ ret'.result.sites = prototype_trace'.nodes]_vars

\* some frame common to the sites reaches past the batch shape of one
ShortBatchShape(sites) ==
    \E i \in DOMAIN sites :
        \E f \in Range(sites[i].cond_indep_stack) :
            /\ f.dim # None
            /\ \A k \in DOMAIN sites : f \in Range(sites[k].cond_indep_stack)
            /\ - f.dim > Len(sites[i].batch_shape)

\* C14 amended: the catalog is built by __call__ before the guide body runs,
\* so a group request of the guide body finds it; group itself builds
\* nothing, and requested while there is no catalog it fails with
\* AttributeError. Against a catalog, group(".*") fails with ValueError
\* when the catalog has no site and with IndexError when a common frame
\* reaches past a member's batch shape, caching nothing, and otherwise
\* returns a Group of every catalog site
C14_CatalogBeforeGuideBody ==
    /\ [](pc = "guide" => ~prototype_trace.is_none)
    /\ [][ret'.op = "group" =>
            /\ prototype_trace' = prototype_trace
            /\ setup_runs' = setup_runs
            /\ IF prototype_trace.is_none
               THEN ret'.err = "AttributeError" /\ groups' = groups
               ELSE ret'.match = <<".", "*">> =>
                       IF ret'.match \in DOMAIN groups
                       THEN /\ ret'.err = "none"
                            /\ ret'.result = groups[ret'.match]
                            /\ ret'.result.sites = prototype_trace.nodes
                            /\ groups' = groups
                       ELSE IF prototype_trace.nodes = <<>>
                       THEN ret'.err = "ValueError" /\ groups' = groups
                       ELSE IF ShortBatchShape(prototype_trace.nodes)
                       THEN ret'.err = "IndexError" /\ groups' = groups
                       ELSE /\ ret'.err = "none"
                            /\ ret'.result.sites = prototype_trace.nodes
                            /\ groups'[ret'.match] = ret'.result]_vars

\* group(".*") in the guide body of the first invocation
C14_Witness ==
    /\ calls = 1 /\ pc = "guide" /\ setup_runs = 1
    /\ ret.op = "group" /\ ret.match = <<".", "*">> /\ ret.err = "none"
    /\ ret.result.sites = prototype_trace.nodes

\* the plates of a site's frames, as cached in ps, that are not on stk
ToEnter(site, ps, stk) ==
    SelectSeq([j \in DOMAIN site.cond_indep_stack |->
                  ps[site.cond_indep_stack[j].name]],
              LAMBDA q : \A i \in DOMAIN stk : stk[i].id # q.id)

\* C15: Group.sample, map_estimate and Group.map_estimate enter, per site, exactly the plates
\* of the site's frames that are not on the effect stack, in frame order,
\* on top of the stack as it was, and leave the stack as they found it,
\* also when map_estimate fails
C15_ScopedPlates ==
    [][ret'.op \in {"sample", "map_estimate", "Group.map_estimate"} =>
        /\ stack' = stack
        /\ \A i \in DOMAIN ret'.sites :
              /\ \A j \in DOMAIN ret'.entered[i] : ~InStack(ret'.entered[i][j], stack)
              /\ ret'.inside[i] = stack \o ret'.entered[i]
              /\ ret'.err = "none" =>
                    ret'.entered[i] = ToEnter(ret'.sites[i], plates', stack)]_vars

\* one plate of the site was active already and another one was entered
C15_Witness ==
    /\ ret.op = "map_estimate" /\ ret.err = "none"
    /\ stack # <<>>
    /\ ret.entered[1] # <<>>
    /\ Len(ret.sites[1].cond_indep_stack) = 2
    /\ ret.inside[1] = stack \o ret.entered[1]

\* C16: every cached Group has a non-empty member list holding the matching
\* sites in catalog order, and its frames are exactly the vectorized frames
\* that every member site carries
C16_GroupMembersAndFrames ==
    \A m \in DOMAIN groups :
        LET g == groups[m] IN
        /\ g.sites # <<>>
        /\ g.sites = SelectSeq(prototype_trace.nodes, LAMBDA x : re_match(m, x.name))
        /\ \A f \in Range(AllFrames(prototype_trace.nodes)) :
              f \in g.frames <=>
                 /\ f.dim # None
                 /\ \A i \in DOMAIN g.sites : f \in Range(g.sites[i].cond_indep_stack)
        /\ g.frames \subseteq Range(AllFrames(prototype_trace.nodes))

\* a group of two sites of which only one carries the frame of plate q
C16_Witness ==
    \E m \in DOMAIN groups :
        /\ Len(groups[m].sites) = 2
        /\ groups[m].frames = {fP}
        /\ fQ \in Range(groups[m].sites[2].cond_indep_stack)

\* the frames _setup_prototype has visited: all of them, or those before
\* the first sequential one
Visited ==
    LET fs == AllFrames(prototype_trace.nodes)
        stop == {i \in DOMAIN fs : fs[i].dim = None}
    IN  IF stop = {} THEN fs
        ELSE SubSeq(fs, 1, (CHOOSE i \in stop : \A k \in stop : i <= k) - 1)

\* C17 as stated: the registry entry of a name is the first frame visited
\* with that name
C17_FirstFrameWins ==
    ~prototype_trace.is_none =>
        \A n \in DOMAIN frames :
            \E i \in DOMAIN Visited :
                /\ Visited[i] = frames[n]
                /\ \A k \in 1..(i - 1) : Visited[k].name # n

\* C17 amended: the registry holds the names of the frames visited, and the
\* entry of a name is the last frame visited with that name
C17_LastFrameWins ==
    ~prototype_trace.is_none =>
        /\ DOMAIN frames = {Visited[i].name : i \in DOMAIN Visited}
        /\ \A n \in DOMAIN frames :
              \E i \in DOMAIN Visited :
                  /\ Visited[i] = frames[n]
                  /\ \A k \in (i + 1)..Len(Visited) : Visited[k].name # n

\* two sites carry different frames of one name; the registry has the later
C17_Witness ==
    /\ ~prototype_trace.is_none
    /\ "p" \in DOMAIN frames
    /\ frames["p"] = fP2
    /\ Visited = <<fP, fP2>>

\* C18: Group.sample, map_estimate and Group.map_estimate construct plates by name only, and a
\* plate request for a cached name returns the cached object, so the first
\* request for a name in an invocation fixes the object's parameters
C18_FirstRequestFixes ==
    [][/\ ret'.op \in {"sample", "map_estimate", "Group.map_estimate"} =>
            \A n \in DOMAIN plates' :
                IF n \in DOMAIN plates THEN plates'[n] = plates[n]
                ELSE /\ plates'[n].size = None
                     /\ plates'[n].subsample_size = None
                     /\ plates'[n].subsample = NoSubsample
       /\ ret'.op = "plate" /\ ret'.name \in DOMAIN plates =>
            ret'.result = plates[ret'.name] /\ plates' = plates]_vars

\* the guide body's sized request came second and got the unsized object
C18_Witness ==
    /\ ret.op = "plate"
    /\ ret.args[1] # None
    /\ ret.result.size = None
    /\ plates[ret.name] = ret.result
====
